---------------------------- MODULE Spec2Model ----------------------------
(* A model of src/app.py: the date-resolution cascade parse_date_string,   *)
(* the sentinel test is_missing, and the /search handler parse_query.      *)
(*                                                                         *)
(* Python values are records [t, n, s]: t is the type tag ("none", "str",  *)
(* "int", "date", "omitted" for a key the dict does not hold, or the name  *)
(* of the exception an expression raised), n the integer payload (an int's *)
(* value, a datetime's proleptic Gregorian ordinal) and s the characters   *)
(* of a str, one character per element.                                    *)
EXTENDS Integers, Sequences, FiniteSets, TLC

VARIABLES request, response, calls

vars == <<request, response, calls>>

-----------------------------------------------------------------------------
(* Python values *)

None == [t |-> "none", n |-> 0, s |-> <<>>]

Omitted == [t |-> "omitted", n |-> 0, s |-> <<>>]

PyStr(chars) == [t |-> "str", n |-> 0, s |-> chars]

PyInt(i) == [t |-> "int", n |-> i, s |-> <<>>]

Date(ordinal) == [t |-> "date", n |-> ordinal, s |-> <<>>]

Raise(exc) == [t |-> exc, n |-> 0, s |-> <<>>]

Exceptions == {"OverflowError", "ValueError", "TypeError", "AttributeError"}

IsRaise(v) == v.t \in Exceptions

\* Python truthiness of None, a str, an int and a datetime.
Truthy(v) ==
    CASE v.t = "none" -> FALSE
      [] v.t = "str" -> v.s # <<>>
      [] v.t = "int" -> v.n # 0
      [] OTHER -> TRUE

-----------------------------------------------------------------------------
(* str methods, character by character *)

UpperChars ==
    <<"A", "B", "C", "D", "E", "F", "G", "H", "I", "J", "K", "L", "M",
      "N", "O", "P", "Q", "R", "S", "T", "U", "V", "W", "X", "Y", "Z">>

LowerChars ==
    <<"a", "b", "c", "d", "e", "f", "g", "h", "i", "j", "k", "l", "m",
      "n", "o", "p", "q", "r", "s", "t", "u", "v", "w", "x", "y", "z">>

DigitChars == <<"0", "1", "2", "3", "4", "5", "6", "7", "8", "9">>

Whitespace == {" ", "\t", "\n"}

LowerChar(c) ==
    IF \E i \in DOMAIN UpperChars : UpperChars[i] = c
    THEN LowerChars[CHOOSE i \in DOMAIN UpperChars : UpperChars[i] = c]
    ELSE c

\* str.lower()
Lower(chars) == [i \in DOMAIN chars |-> LowerChar(chars[i])]

\* str.strip()
Strip(chars) ==
    LET keep == {i \in DOMAIN chars : chars[i] \notin Whitespace}
    IN IF keep = {} THEN <<>>
       ELSE LET first == CHOOSE i \in keep : \A j \in keep : i <= j
                last == CHOOSE i \in keep : \A j \in keep : j <= i
            IN SubSeq(chars, first, last)

\* sub at position i of chars
MatchAt(chars, sub, i) ==
    /\ i >= 1
    /\ i + Len(sub) - 1 <= Len(chars)
    /\ SubSeq(chars, i, i + Len(sub) - 1) = sub

\* the `in` operator on two strs
Contains(chars, sub) == \E i \in 1..(Len(chars) + 1) : MatchAt(chars, sub, i)

IsDigit(c) == \E i \in DOMAIN DigitChars : DigitChars[i] = c

DigitVal(c) == (CHOOSE i \in DOMAIN DigitChars : DigitChars[i] = c) - 1

\* int() of a run of decimal digits
RECURSIVE ParseInt(_)
ParseInt(digits) ==
    IF digits = <<>> THEN 0
    ELSE 10 * ParseInt(SubSeq(digits, 1, Len(digits) - 1))
         + DigitVal(digits[Len(digits)])

\* the decimal digits of i, at least width of them (zero padded)
RECURSIVE FormatInt(_, _)
FormatInt(i, width) ==
    IF i < 10 /\ width <= 1 THEN <<DigitChars[i + 1]>>
    ELSE Append(FormatInt(i \div 10, width - 1), DigitChars[(i % 10) + 1])

-----------------------------------------------------------------------------
(* The literals of the source *)

S_day_after_tomorrow ==
    <<"d", "a", "y", " ", "a", "f", "t", "e", "r", " ", "t", "o", "m", "o", "r", "r", "o", "w">>

S_tomorrow ==
    <<"t", "o", "m", "o", "r", "r", "o", "w">>

S_next_month ==
    <<"n", "e", "x", "t", " ", "m", "o", "n", "t", "h">>

S_after_ ==
    <<"a", "f", "t", "e", "r", " ">>

S__day ==
    <<" ", "d", "a", "y">>

S_none ==
    <<"n", "o", "n", "e">>

S_not_provided ==
    <<"n", "o", "t", " ", "p", "r", "o", "v", "i", "d", "e", "d">>

S_departure_city_np ==
    <<"d", "e", "p", "a", "r", "t", "u", "r", "e", " ", "c", "i", "t", "y", " ", "(", "n", "o", "t", " ", "p", "r", "o", "v", "i", "d", "e", "d", ")">>

S_arrival_city_np ==
    <<"a", "r", "r", "i", "v", "a", "l", " ", "c", "i", "t", "y", " ", "(", "n", "o", "t", " ", "p", "r", "o", "v", "i", "d", "e", "d", ")">>

S_economy ==
    <<"e", "c", "o", "n", "o", "m", "y">>

-----------------------------------------------------------------------------
(* datetime: the proleptic Gregorian calendar, dates as ordinals *)

MAXYEAR == 9999

IsLeap(y) == y % 4 = 0 /\ (y % 100 # 0 \/ y % 400 = 0)

DaysInMonth(y, m) ==
    IF m = 2 THEN (IF IsLeap(y) THEN 29 ELSE 28)
    ELSE IF m \in {4, 6, 9, 11} THEN 30 ELSE 31

DaysBeforeYear(y) ==
    (y - 1) * 365 + (y - 1) \div 4 - (y - 1) \div 100 + (y - 1) \div 400

RECURSIVE DaysBeforeMonth(_, _)
DaysBeforeMonth(y, m) ==
    IF m = 1 THEN 0 ELSE DaysBeforeMonth(y, m - 1) + DaysInMonth(y, m - 1)

\* datetime(y, m, d).toordinal()
Ymd2Ord(y, m, d) == DaysBeforeYear(y) + DaysBeforeMonth(y, m) + d

\* date.max.toordinal(), 9999-12-31
MaxOrdinal == Ymd2Ord(MAXYEAR, 12, 31)

\* the year, month and day of an ordinal
Ord2Ymd(ordinal) ==
    LET y == CHOOSE yy \in ((ordinal \div 366) + 1)..((ordinal \div 365) + 1) :
                 /\ DaysBeforeYear(yy) < ordinal
                 /\ ordinal <= DaysBeforeYear(yy + 1)
        rest == ordinal - DaysBeforeYear(y)
        m == CHOOSE mm \in 1..12 :
                 /\ DaysBeforeMonth(y, mm) < rest
                 /\ rest <= DaysBeforeMonth(y, mm) + DaysInMonth(y, mm)
    IN [year |-> y, month |-> m, day |-> rest - DaysBeforeMonth(y, m)]

\* datetime + timedelta(days=days); OverflowError past date.max
AddDays(today, days) ==
    IF today.n + days > MaxOrdinal THEN Raise("OverflowError")
    ELSE Date(today.n + days)

\* the same without the cut to the month's length: the days past its end
\* spill into the month after
AddMonth_spill(today) ==
    LET d == Ord2Ymd(today.n)
        year == IF d.month = 12 THEN d.year + 1 ELSE d.year
        month == IF d.month = 12 THEN 1 ELSE d.month + 1
    IN IF year > MAXYEAR THEN Raise("ValueError")
       ELSE Date(Ymd2Ord(year, month, d.day))

\* datetime + relativedelta(months=1): the month advances, the year rolls
\* over after December, the day is cut to the target month's length;
\* datetime.replace raises ValueError past MAXYEAR
AddMonth(today) ==
    LET d == Ord2Ymd(today.n)
        year == IF d.month = 12 THEN d.year + 1 ELSE d.year
        month == IF d.month = 12 THEN 1 ELSE d.month + 1
        last == DaysInMonth(year, month)
        day == IF d.day > last THEN last ELSE d.day
    IN IF year > MAXYEAR THEN Raise("ValueError")
       ELSE Date(Ymd2Ord(year, month, day))

\* datetime.strftime('%Y-%m-%d')
Strftime(date) ==
    LET d == Ord2Ymd(date.n)
    IN PyStr(FormatInt(d.year, 4) \o <<"-">> \o FormatInt(d.month, 2)
           \o <<"-">> \o FormatInt(d.day, 2))

\* datetime.strptime(text, "%Y-%m-%d") on the zero-padded form strftime
\* writes; ValueError when the text has another shape or names no calendar day
Strptime(text) ==
    LET c == text.s
        shaped == /\ Len(c) = 10
                  /\ c[5] = "-" /\ c[8] = "-"
                  /\ \A i \in {1, 2, 3, 4, 6, 7, 9, 10} : IsDigit(c[i])
        y == ParseInt(SubSeq(c, 1, 4))
        m == ParseInt(SubSeq(c, 6, 7))
        d == ParseInt(SubSeq(c, 9, 10))
    IN IF shaped /\ y >= 1 /\ m \in 1..12 /\ d >= 1 /\ d <= DaysInMonth(y, m)
       THEN Date(Ymd2Ord(y, m, d))
       ELSE Raise("ValueError")

-----------------------------------------------------------------------------
(* parse_date_string *)

\* today = base_date or datetime.now()
Today_now(base_date, now) == now

Today(base_date, now) == IF Truthy(base_date) THEN base_date ELSE now

\* the length of the run of digits of chars that starts at position j
DigitRun(chars, j) ==
    Cardinality({k \in 1..(Len(chars) - j + 1) :
                    \A i \in j..(j + k - 1) : IsDigit(chars[i])})

\* r'after (\d+) days?' matches at position i: "after ", the digits (the
\* whole run: a shorter one is followed by a digit, not by " day"), " day";
\* the optional s matches either way
AfterDaysAt(chars, i) ==
    /\ MatchAt(chars, S_after_, i)
    /\ DigitRun(chars, i + Len(S_after_)) >= 1
    /\ MatchAt(chars, S__day, i + Len(S_after_) + DigitRun(chars, i + Len(S_after_)))

\* re.search: whether the pattern matches anywhere
AfterDaysFound(chars) == \E i \in DOMAIN chars : AfterDaysAt(chars, i)

\* match.group(1) of the leftmost match
AfterDaysGroup(chars) ==
    LET at == CHOOSE i \in DOMAIN chars :
                  /\ AfterDaysAt(chars, i)
                  /\ \A j \in DOMAIN chars : AfterDaysAt(chars, j) => i <= j
        from == at + Len(S_after_)
    IN SubSeq(chars, from, from + DigitRun(chars, from) - 1)

\* the branch parse_date_string takes on the lower-cased, stripped text
Strategy_patternFirst(lower) ==
    IF AfterDaysFound(lower) THEN "after_days"
    ELSE IF Contains(lower, S_day_after_tomorrow) THEN "day_after_tomorrow"
    ELSE IF Contains(lower, S_tomorrow) THEN "tomorrow"
    ELSE IF lower = S_next_month THEN "next_month"
    ELSE "fallback"

Strategy(lower) ==
    IF Contains(lower, S_day_after_tomorrow) THEN "day_after_tomorrow"
    ELSE IF Contains(lower, S_tomorrow) THEN "tomorrow"
    ELSE IF lower = S_next_month THEN "next_month"
    ELSE IF AfterDaysFound(lower) THEN "after_days"
    ELSE "fallback"

\* The two library parsers. What parsedatetime and dateutil make of a text
\* is not in the source: lib.cal is the date parsedatetime found (None when
\* parse_status is 0), lib.fuzzy the date dateutil found (None when it
\* raised, which the except clause turns into None).
Fallback(today, lib) ==
    IF lib.cal # None THEN lib.cal ELSE lib.fuzzy

parse_date_string(natural_date, base_date, now, lib) ==
    IF ~Truthy(natural_date) THEN None
    ELSE IF natural_date.t # "str" THEN Raise("AttributeError")
    ELSE LET natural_date_lower == Strip(Lower(natural_date.s))
             today == Today(base_date, now)
             how == Strategy(natural_date_lower)
             date == CASE how = "day_after_tomorrow" -> AddDays(today, 2)
                       [] how = "tomorrow" -> AddDays(today, 1)
                       [] how = "next_month" -> AddMonth(today)
                       [] how = "after_days" ->
                            AddDays(today, ParseInt(AfterDaysGroup(natural_date_lower)))
                       [] OTHER -> Fallback(today, lib)
         IN IF date.t = "date" THEN Strftime(date) ELSE date

-----------------------------------------------------------------------------
(* The inputs the model draws from *)

\* "after N days" is drawn for every N up to MaxDays
MaxDays == 3

\* every anchor is drawn with the AnchorSpan days before it
AnchorSpan == 1

\* an offset no anchor can take: date.max itself, in days
HugeDays == MaxOrdinal

X_Tomorrow ==
    <<"T", "o", "m", "o", "r", "r", "o", "w">>

X_tomorrow_after_3_days ==
    <<"t", "o", "m", "o", "r", "r", "o", "w", " ", "a", "f", "t", "e", "r", " ", "3", " ", "d", "a", "y", "s">>

X_dat_after_3 ==
    <<"d", "a", "y", " ", "a", "f", "t", "e", "r", " ", "t", "o", "m", "o", "r", "r", "o", "w", ",", " ", "a", "f", "t", "e", "r", " ", "3", " ", "d", "a", "y", "s">>

X_Next_Month ==
    <<" ", "N", "e", "x", "t", " ", "M", "o", "n", "t", "h", " ">>

X_next_month_please ==
    <<"n", "e", "x", "t", " ", "m", "o", "n", "t", "h", " ", "p", "l", "e", "a", "s", "e">>

X_after_m5 ==
    <<"a", "f", "t", "e", "r", " ", "-", "5", " ", "d", "a", "y", "s">>

X_xyz ==
    <<"x", "y", "z">>

X_2025_03_10 ==
    <<"2", "0", "2", "5", "-", "0", "3", "-", "1", "0">>

X_blank ==
    <<" ">>

\* "after <n> days"
AfterExpr(n) == S_after_ \o FormatInt(n, 1) \o S__day \o <<"s">>

\* "Back After <n> Day!": the pattern inside other text, in another case
AfterInText(n) ==
    <<"B", "a", "c", "k", " ", "A", "f", "t", "e", "r", " ">> \o FormatInt(n, 1)
    \o <<" ", "D", "a", "y", "!">>

PhraseExprs ==
    {PyStr(S_tomorrow), PyStr(X_Tomorrow), PyStr(S_day_after_tomorrow),
     PyStr(X_tomorrow_after_3_days), PyStr(X_dat_after_3)}

MonthExprs == {PyStr(S_next_month), PyStr(X_Next_Month)}

AfterExprs ==
    {PyStr(AfterExpr(n)) : n \in (0..MaxDays) \cup {10, HugeDays}}
    \cup {PyStr(AfterInText(MaxDays))}

\* texts no strategy of the source matches and in which a library parser
\* may find a date
FallbackExprs ==
    {PyStr(X_2025_03_10), PyStr(X_next_month_please), PyStr(X_after_m5)}

\* no expression: null, the empty text, and a blank text and a garbage
\* one, in which the library parsers find nothing
EmptyExprs == {None, PyStr(<<>>), PyStr(X_blank), PyStr(X_xyz)}

DateExprs ==
    EmptyExprs \cup PhraseExprs \cup MonthExprs \cup AfterExprs \cup FallbackExprs

AnchorDays ==
    {Ymd2Ord(2025, 6, 1), Ymd2Ord(2024, 1, 31), Ymd2Ord(2023, 1, 31),
     Ymd2Ord(2024, 12, 31), Ymd2Ord(2025, 3, 10), MaxOrdinal}

Anchors == {Date(a - k) : a \in AnchorDays, k \in 0..AnchorSpan}

\* datetime.now()
Now == Date(Ymd2Ord(2025, 6, 1))

NoLib == [cal |-> None, fuzzy |-> None]

\* what the library parsers find: nothing, a date by parsedatetime, a date
\* by dateutil
Libs ==
    {NoLib,
     [cal |-> Date(Ymd2Ord(2025, 6, 9)), fuzzy |-> None],
     [cal |-> None, fuzzy |-> Date(Ymd2Ord(2025, 3, 10))]}

\* An expression with what the library parsers find in it: only a text that
\* reaches them is drawn with each finding.
DateInputs ==
    {[text |-> e, lib |-> NoLib] : e \in DateExprs \cup {Omitted}}
    \cup {[text |-> e, lib |-> l] : e \in FallbackExprs, l \in Libs}

-----------------------------------------------------------------------------
(* is_missing and the conversions parse_query applies *)

\* str(value) of a str or a non-negative int
StrOf(value) == IF value.t = "int" THEN FormatInt(value.n, 1) ELSE value.s

Sentinels ==
    {<<>>, S_none, S_not_provided, S_departure_city_np, S_arrival_city_np}

is_missing_unnormalised(value) ==
    IF value = None THEN TRUE ELSE StrOf(value) \in Sentinels

is_missing(value) ==
    IF value = None THEN TRUE
    ELSE Lower(Strip(StrOf(value))) \in Sentinels

\* int(value): TypeError on None, ValueError on a str that is no number
IntOf(value) ==
    CASE value.t = "int" -> value
      [] value.t = "none" -> Raise("TypeError")
      [] OTHER ->
           LET text == Strip(value.s)
           IN IF text # <<>> /\ \A i \in DOMAIN text : IsDigit(text[i])
              THEN PyInt(ParseInt(text))
              ELSE Raise("ValueError")

\* value.lower(): AttributeError on anything but a str
LowerOf(value) ==
    IF value.t = "str" THEN PyStr(Lower(value.s)) ELSE Raise("AttributeError")

\* parsed.get(key): None when the dict does not hold the key
Get(parsed, key) == IF parsed[key] = Omitted THEN None ELSE parsed[key]

\* parsed.get(key, default): the default only when the dict does not hold
\* the key; a key held with null gives None
GetDefault(parsed, key, default) ==
    IF parsed[key] = Omitted THEN default ELSE parsed[key]

-----------------------------------------------------------------------------
(* parse_query *)

\* the follow-up questions, without the emoji that opens each
PromptFrom == "Where are you flying *from*?"

PromptTo == "Where are you flying *to*?"

PromptDepart == "When do you want to *depart*?"

\* if not depdate_raw or not depdate
DepdateMissing_rawOnly(depdate_raw, depdate) == ~Truthy(depdate_raw)

DepdateMissing(depdate_raw, depdate) ==
    ~Truthy(depdate_raw) \/ ~Truthy(depdate)

\* the three checks, each appending to both lists
CheckMissing_prompts(depfrom, arrto, depdate_raw, depdate) ==
    LET f == is_missing(depfrom)
        t == is_missing(arrto)
        d == DepdateMissing(depdate_raw, depdate)
    IN [missing_fields |->
            (IF f THEN <<"from">> ELSE <<>>) \o (IF t THEN <<"to">> ELSE <<>>)
            \o (IF d THEN <<"depdate">> ELSE <<>>),
        follow_up |->
            (IF t THEN <<PromptTo>> ELSE <<>>) \o (IF f THEN <<PromptFrom>> ELSE <<>>)
            \o (IF d THEN <<PromptDepart>> ELSE <<>>)]

CheckMissing(depfrom, arrto, depdate_raw, depdate) ==
    LET f == is_missing(depfrom)
        t == is_missing(arrto)
        d == DepdateMissing(depdate_raw, depdate)
    IN [missing_fields |->
            (IF f THEN <<"from">> ELSE <<>>) \o (IF t THEN <<"to">> ELSE <<>>)
            \o (IF d THEN <<"depdate">> ELSE <<>>),
        follow_up |->
            (IF f THEN <<PromptFrom>> ELSE <<>>) \o (IF t THEN <<PromptTo>> ELSE <<>>)
            \o (IF d THEN <<PromptDepart>> ELSE <<>>)]

\* "depdate": depdate_raw or None
EchoDepdate_resolved(depdate_raw, depdate) == depdate

EchoDepdate(depdate_raw, depdate) ==
    IF Truthy(depdate_raw) THEN depdate_raw ELSE None

NoParsed == [from |-> None, to |-> None, depdate |-> None]

NoPayload ==
    [adults |-> None, children |-> None, infants |-> None, cabin |-> None,
     stops |-> FALSE, airline_include |-> None, ages |-> <<>>, segments |-> <<>>]

\* jsonify({"error": ...}), code
ErrorResponse(code, error) ==
    [code |-> code, status |-> "error", error |-> error,
     missing_fields |-> <<>>, follow_up |-> <<>>,
     parsed |-> NoParsed, payload |-> NoPayload]

IncompleteResponse(missing, depfrom, arrto, echo) ==
    [code |-> 200, status |-> "incomplete", error |-> "",
     missing_fields |-> missing.missing_fields, follow_up |-> missing.follow_up,
     parsed |-> [from |-> depfrom, to |-> arrto, depdate |-> echo],
     payload |-> NoPayload]

CompleteResponse(payload) ==
    [code |-> 200, status |-> "complete", error |-> "",
     missing_fields |-> <<>>, follow_up |-> <<>>,
     parsed |-> NoParsed, payload |-> payload]

\* one invocation of parse_date_string, as the handler made it
CallOf(natural_date, base_date, now, lib) ==
    [natural_date |-> natural_date, base_date |-> base_date, now |-> now,
     lib |-> lib,
     result |-> parse_date_string(natural_date, base_date, now, lib)]

\* the value of `f(x) if cond else None`, given the calls it made
ResultOf(made) == IF made # <<>> THEN made[1].result ELSE None

\* lines 176-216: the incomplete response when a field is missing, else the
\* payload, with the return segment when retdate is set
Respond(depfrom, arrto, depdate_raw, depdate, retdate, counts, cabin, airline) ==
    LET missing == CheckMissing(depfrom, arrto, depdate_raw, depdate)
        outbound == [depfrom |-> depfrom, arrto |-> arrto, depdate |-> depdate]
        inbound == [depfrom |-> arrto, arrto |-> depfrom, depdate |-> retdate]
    IN IF missing.missing_fields # <<>>
       THEN IncompleteResponse(missing, depfrom, arrto,
                               EchoDepdate(depdate_raw, depdate))
       ELSE CompleteResponse(
                [adults |-> counts[1], children |-> counts[2],
                 infants |-> counts[3], cabin |-> cabin, stops |-> FALSE,
                 airline_include |-> airline, ages |-> <<>>,
                 segments |-> IF Truthy(retdate) THEN <<outbound, inbound>>
                              ELSE <<outbound>>])

\* the first exception among the values, None when none raised
FirstRaised(steps) ==
    LET raised == {i \in DOMAIN steps : IsRaise(steps[i])}
    IN IF raised = {} THEN None
       ELSE steps[CHOOSE i \in raised : \A j \in raised : i <= j]

\* lines 157-161 and on: the conversions of the optional fields, in the
\* order of the statements; an exception in one ends the try block
Defaults(parsed, depdate, retdate) ==
    LET counts == <<IntOf(GetDefault(parsed, "adults", PyInt(1))),
                    IntOf(GetDefault(parsed, "children", PyInt(0))),
                    IntOf(GetDefault(parsed, "infants", PyInt(0)))>>
        cabin == LowerOf(GetDefault(parsed, "cabin", PyStr(S_economy)))
        airline == GetDefault(parsed, "airline_include", PyStr(<<>>))
        exc == FirstRaised(<<retdate>> \o counts \o <<cabin>>)
    IN IF exc # None THEN ErrorResponse(500, exc.t)
       ELSE Respond(Get(parsed, "from"), Get(parsed, "to"),
                    Get(parsed, "depdate"), depdate, retdate, counts, cabin,
                    airline)

\* line 154: parse_date_string(depdate_raw) if depdate_raw else None
DepCalls(parsed, now, lib) ==
    IF Truthy(Get(parsed, "depdate"))
    THEN <<CallOf(Get(parsed, "depdate"), None, now, lib.dep)>>
    ELSE <<>>

\* line 155, the anchor: datetime.strptime(depdate, "%Y-%m-%d") when
\* retdate_raw and depdate are both set
BaseDate(retdate_raw, depdate) ==
    IF Truthy(retdate_raw) /\ Truthy(depdate) THEN Strptime(depdate) ELSE None

\* line 155, the call: made when the anchor was computed
RetCalls(retdate_raw, base_date, now, lib) ==
    IF base_date.t = "date"
    THEN <<CallOf(retdate_raw, base_date, now, lib.ret)>>
    ELSE <<>>

AfterReturn(parsed, depcalls, base_date, retcalls) ==
    [calls |-> depcalls \o retcalls,
     response |->
        Defaults(parsed, ResultOf(depcalls),
                 IF IsRaise(base_date) THEN base_date ELSE ResultOf(retcalls))]

AfterAnchor(parsed, now, lib, depcalls, base_date) ==
    AfterReturn(parsed, depcalls, base_date,
                RetCalls(Get(parsed, "retdate"), base_date, now, lib))

AfterDeparture(parsed, now, lib, depcalls) ==
    IF IsRaise(ResultOf(depcalls))
    THEN [calls |-> depcalls,
          response |-> ErrorResponse(500, ResultOf(depcalls).t)]
    ELSE AfterAnchor(parsed, now, lib, depcalls,
                     BaseDate(Get(parsed, "retdate"), ResultOf(depcalls)))

\* The body of the try block once the extractor's JSON is loaded: the
\* response, and the invocations of parse_date_string made on the way. An
\* exception ends the block at the statement that raised it.
HandleParsed(parsed, now, lib) ==
    AfterDeparture(parsed, now, lib, DepCalls(parsed, now, lib))

\* The handler of POST /search. req.query is the "query" of the body,
\* req.content what the extractor answered: "text" (no {...} in it),
\* "invalid" ({...} that json.loads rejects) or "json", with req.parsed the
\* dict; req.now is datetime.now() and req.lib what the library parsers find.
parse_query(req) ==
    IF ~Truthy(req.query)
    THEN [calls |-> <<>>, response |-> ErrorResponse(400, "Missing 'query'")]
    ELSE IF req.content = "text"
    THEN [calls |-> <<>>,
          response |-> ErrorResponse(500, "Invalid JSON in model output")]
    ELSE IF req.content = "invalid"
    THEN [calls |-> <<>>, response |-> ErrorResponse(500, "JSONDecodeError")]
    ELSE HandleParsed(req.parsed, req.now, req.lib)

-----------------------------------------------------------------------------
(* The requests the model draws *)

\* passenger counts are drawn up to MaxPax
MaxPax == 2

X_DEL ==
    <<"D", "E", "L">>

X_DXB ==
    <<"D", "X", "B">>

X_DepartureCityNP ==
    <<" ", " ", "D", "e", "p", "a", "r", "t", "u", "r", "e", " ", "C", "i", "t", "y", " ", "(", "N", "o", "t", " ", "P", "r", "o", "v", "i", "d", "e", "d", ")", " ">>

X_DEPARTURE_CITY_NP ==
    <<"D", "E", "P", "A", "R", "T", "U", "R", "E", " ", "C", "I", "T", "Y", " ", "(", "N", "O", "T", " ", "P", "R", "O", "V", "I", "D", "E", "D", ")">>

X_ArrivalCityNP ==
    <<"A", "r", "r", "i", "v", "a", "l", " ", "C", "i", "t", "y", " ", "(", "N", "o", "t", " ", "P", "r", "o", "v", "i", "d", "e", "d", ")">>

X_NotProvided ==
    <<"N", "o", "t", " ", "P", "r", "o", "v", "i", "d", "e", "d">>

X_None ==
    <<"N", "o", "n", "e">>

X_Nonesuch ==
    <<"N", "o", "n", "e", "s", "u", "c", "h">>

X_Business ==
    <<"B", "u", "s", "i", "n", "e", "s", "s">>

X_Indigo ==
    <<"I", "n", "d", "i", "g", "o">>

Origins ==
    {None, PyStr(<<>>), PyStr(X_DEL), PyStr(X_DepartureCityNP),
     PyStr(X_DEPARTURE_CITY_NP), PyStr(X_NotProvided), PyStr(X_None),
     PyStr(X_Nonesuch)}

Destinations == {None, PyStr(X_DXB), PyStr(X_ArrivalCityNP)}

Counts ==
    {Omitted, None, PyStr(X_NotProvided)}
    \cup {PyInt(n) : n \in 1..MaxPax} \cup {PyStr(FormatInt(MaxPax, 1))}

Nows == {Date(Now.n - k) : k \in 0..AnchorSpan}

Dict(depfrom, arrto, depdate, retdate, adults, children, infants, cabin, airline) ==
    [from |-> depfrom, to |-> arrto, depdate |-> depdate, retdate |-> retdate,
     adults |-> adults, children |-> children, infants |-> infants,
     cabin |-> cabin, airline_include |-> airline]

Request(query, content, parsed, now, lib) ==
    [query |-> query, content |-> content, parsed |-> parsed, now |-> now,
     lib |-> lib]

EmptyDict ==
    Dict(Omitted, Omitted, Omitted, Omitted, Omitted, Omitted, Omitted, Omitted,
         Omitted)

X_query == PyStr(<<"q">>)

\* requests that end before the extractor's JSON is read
EarlyRequests ==
    {Request(q, "json", EmptyDict, Now, [dep |-> NoLib, ret |-> NoLib]) :
        q \in {None, PyStr(<<>>)}}
    \cup {Request(X_query, c, EmptyDict, Now, [dep |-> NoLib, ret |-> NoLib]) :
            c \in {"text", "invalid"}}

\* every pair of departure and return expressions, on a full route
DateRequests ==
    {Request(X_query, "json",
             Dict(PyStr(X_DEL), PyStr(X_DXB), dep.text, ret.text, Omitted,
                  Omitted, Omitted, Omitted, Omitted),
             now, [dep |-> dep.lib, ret |-> ret.lib]) :
        dep \in DateInputs, ret \in DateInputs, now \in Nows}

\* every pair of origin and destination values
RouteRequests ==
    {Request(X_query, "json",
             Dict(depfrom, arrto, dep, ret, Omitted, Omitted, Omitted, Omitted,
                  Omitted),
             Now, [dep |-> NoLib, ret |-> NoLib]) :
        depfrom \in Origins \cup {Omitted}, arrto \in Destinations,
        dep \in {None, PyStr(S_tomorrow), PyStr(X_xyz)},
        ret \in {None, PyStr(AfterExpr(MaxDays))}}

\* the optional fields: left out, null, or given
OptionRequests ==
    {Request(X_query, "json",
             Dict(PyStr(X_DEL), PyStr(X_DXB), dep, Omitted, adults, children,
                  infants, cabin, airline),
             Now, [dep |-> NoLib, ret |-> NoLib]) :
        dep \in {None, PyStr(S_tomorrow)}, adults \in Counts,
        children \in {Omitted, None, PyInt(1)}, infants \in {Omitted, None},
        cabin \in {Omitted, None, PyStr(X_Business)},
        airline \in {Omitted, None, PyStr(X_Indigo)}}

Requests == EarlyRequests \cup DateRequests \cup RouteRequests \cup OptionRequests

-----------------------------------------------------------------------------
(* The service: a request is handled in one step and its response sent in *)
(* the next; nothing of a request is kept for the one after it.            *)

Idle == request = None /\ response = None /\ calls = <<>>

Search(req) ==
    LET out == parse_query(req)
    IN /\ Idle
       /\ request' = req
       /\ response' = out.response
       /\ calls' = out.calls

\* the response is returned and the handler's locals are gone
Return ==
    /\ request # None
    /\ request' = None
    /\ response' = None
    /\ calls' = <<>>

Init ==
    /\ request = None
    /\ response = None
    /\ calls = <<>>

Next == (\E req \in Requests : Search(req)) \/ Return

Spec == Init /\ [][Next]_vars

-----------------------------------------------------------------------------
(* The resolver on its own: one call of parse_date_string per step *)

ResolverCalls ==
    {[natural_date |-> i.text, base_date |-> b, now |-> Now, lib |-> i.lib] :
        i \in {j \in DateInputs : j.text # Omitted}, b \in {None} \cup Anchors}

Resolve(c) ==
    /\ Idle
    /\ calls' = <<CallOf(c.natural_date, c.base_date, c.now, c.lib)>>
    /\ UNCHANGED <<request, response>>

\* the call has returned
Resolved ==
    /\ request = None
    /\ calls # <<>>
    /\ calls' = <<>>
    /\ UNCHANGED <<request, response>>

NextResolver == (\E c \in ResolverCalls : Resolve(c)) \/ Resolved

SpecResolver == Init /\ [][NextResolver]_vars

-----------------------------------------------------------------------------
(* What the properties read off a state *)

\* a request whose extracted JSON reached the body of the try block
Handled ==
    /\ request # None
    /\ Truthy(request.query)
    /\ request.content = "json"

Raw(key) == Get(request.parsed, key)

\* the handler called parse_date_string for the departure expression
DepCalled == calls # <<>> /\ calls[1].base_date = None

\* the departure expression resolved to a date
DepResolved == DepCalled /\ calls[1].result.t = "str"

\* the calls made with an anchor: those for the return expression
RetCalled == {i \in DOMAIN calls : calls[i].base_date # None}

Range(seq) == {seq[i] : i \in DOMAIN seq}

\* the anchor a call resolves against
AnchorOf(c) == IF c.base_date # None THEN c.base_date ELSE c.now

\* the date text n days after the date d, when the calendar holds it
DaysAfter(d, n) == Strftime(Date(d.n + n))

D_2025_03_20 == <<"2", "0", "2", "5", "-", "0", "3", "-", "2", "0">>

D_2025_06_02 == <<"2", "0", "2", "5", "-", "0", "6", "-", "0", "2">>

D_2024_02_29 == <<"2", "0", "2", "4", "-", "0", "2", "-", "2", "9">>

D_2023_02_28 == <<"2", "0", "2", "3", "-", "0", "2", "-", "2", "8">>

D_2025_01_31 == <<"2", "0", "2", "5", "-", "0", "1", "-", "3", "1">>

-----------------------------------------------------------------------------
(* C1: in every request parse_query handles, when the departure expression  *)
(* resolved to a date D and a return expression is given, parse_date_string *)
(* is called for it with D as base_date, and "after N days" then gives      *)
(* D + N days (where the calendar holds that day), whatever now is; when    *)
(* the departure expression is absent or did not resolve, no call is made   *)
(* for the return expression and no return segment is built.                *)
C1_ReturnAnchoredToDeparture ==
    Handled =>
        /\ (DepResolved /\ Truthy(Raw("retdate"))) =>
              /\ Len(calls) = 2
              /\ calls[2].natural_date = Raw("retdate")
              /\ calls[2].base_date.t = "date"
              /\ Strftime(calls[2].base_date) = calls[1].result
              /\ \A n \in (0..MaxDays) \cup {10} :
                    (/\ calls[2].natural_date = PyStr(AfterExpr(n))
                     /\ Strptime(calls[1].result).n + n <= MaxOrdinal)
                    => calls[2].result = DaysAfter(Strptime(calls[1].result), n)
        /\ ~DepResolved =>
              /\ RetCalled = {}
              /\ Len(response.payload.segments) <= 1

\* the departure resolved to 2025-03-10, not the day of the request, and
\* "after 10 days" gave 2025-03-20
C1_Witness ==
    /\ Handled
    /\ DepResolved
    /\ calls[1].natural_date = PyStr(X_2025_03_10)
    /\ calls[1].result = PyStr(X_2025_03_10)
    /\ request.now # Date(Ymd2Ord(2025, 3, 10))
    /\ Len(calls) = 2
    /\ calls[2].natural_date = PyStr(AfterExpr(10))
    /\ calls[2].result = PyStr(D_2025_03_20)

(* C2: for every anchor and expression given to parse_date_string, a text   *)
(* whose lower-cased form contains "day after tomorrow" resolves to the     *)
(* anchor + 2 days, and otherwise one that contains "tomorrow" to the       *)
(* anchor + 1 day (where the calendar holds that day), also when the text   *)
(* holds an "after N days" pattern as well.                                 *)
C2_PhrasesFirst ==
    \A i \in DOMAIN calls :
        LET c == calls[i]
            lower == Lower(c.natural_date.s)
            a == AnchorOf(c)
        IN c.natural_date.t = "str" =>
              /\ (Contains(lower, S_day_after_tomorrow) /\ a.n + 2 <= MaxOrdinal)
                    => c.result = DaysAfter(a, 2)
              /\ (/\ ~Contains(lower, S_day_after_tomorrow)
                  /\ Contains(lower, S_tomorrow)
                  /\ a.n + 1 <= MaxOrdinal)
                    => c.result = DaysAfter(a, 1)

\* "tomorrow after 3 days" resolved to the day after the anchor
C2_Witness ==
    /\ calls # <<>>
    /\ calls[1].natural_date = PyStr(X_tomorrow_after_3_days)
    /\ calls[1].base_date = Date(Ymd2Ord(2025, 3, 10))
    /\ calls[1].result = DaysAfter(calls[1].base_date, 1)

(* C3: for every anchor, "next month" (in any letter case, with or without  *)
(* blanks around it) resolves to the same day of the next                   *)
(* calendar month, cut to that month's last day when it has no such day,    *)
(* December going to January of the next year (up to the calendar's last    *)
(* year): 2024-01-31 gives 2024-02-29, 2023-01-31 gives 2023-02-28.         *)
C3_NextMonthClamps ==
    \A i \in DOMAIN calls :
        LET c == calls[i]
            a == Ord2Ymd(AnchorOf(c).n)
            y == IF a.month = 12 THEN a.year + 1 ELSE a.year
            m == (a.month % 12) + 1
            r == Ord2Ymd(Strptime(c.result).n)
        IN (/\ c.natural_date.t = "str"
            /\ Strip(Lower(c.natural_date.s)) = S_next_month
            /\ y <= MAXYEAR) =>
              /\ c.result.t = "str"
              /\ r.year = y
              /\ r.month = m
              /\ r.day <= a.day
              /\ r.day = a.day \/ r.day = DaysInMonth(y, m)
              /\ AnchorOf(c) = Date(Ymd2Ord(2024, 1, 31))
                    => c.result = PyStr(D_2024_02_29)
              /\ AnchorOf(c) = Date(Ymd2Ord(2023, 1, 31))
                    => c.result = PyStr(D_2023_02_28)
              /\ AnchorOf(c) = Date(Ymd2Ord(2024, 12, 31))
                    => c.result = PyStr(D_2025_01_31)

\* "next month" on 2024-01-31 gave 2024-02-29
C3_Witness ==
    /\ calls # <<>>
    /\ calls[1].natural_date = PyStr(S_next_month)
    /\ calls[1].base_date = Date(Ymd2Ord(2024, 1, 31))
    /\ calls[1].result = PyStr(D_2024_02_29)

(* C4: parse_date_string returns a date text or None for every expression   *)
(* and anchor; no exception leaves it.                                      *)
C4_NoExceptionEscapes ==
    \A i \in DOMAIN calls : calls[i].result.t \in {"str", "none"}

(* C5: in every incomplete response missing_fields is non-empty, follows    *)
(* the order from, to, depdate without repeats, and follow_up holds, place  *)
(* by place, the prompt of the field named at that place.                   *)
FieldOrder == <<"from", "to", "depdate">>

PromptOf == <<PromptFrom, PromptTo, PromptDepart>>

PlaceOf(name) == CHOOSE k \in DOMAIN FieldOrder : FieldOrder[k] = name

C5_MissingAndPromptsInLockstep ==
    (request # None /\ response.status = "incomplete") =>
        LET mf == response.missing_fields
            fu == response.follow_up
        IN /\ mf # <<>>
           /\ Range(mf) \subseteq Range(FieldOrder)
           /\ \A i, j \in DOMAIN mf : i < j => PlaceOf(mf[i]) < PlaceOf(mf[j])
           /\ Len(fu) = Len(mf)
           /\ \A i \in DOMAIN mf : fu[i] = PromptOf[PlaceOf(mf[i])]

\* origin and departure missing, destination given
C5_Witness ==
    /\ Handled
    /\ Raw("to") = PyStr(X_DXB)
    /\ response.status = "incomplete"
    /\ response.missing_fields = <<"from", "depdate">>
    /\ response.follow_up = <<PromptFrom, PromptDepart>>

(* C6: in every response that carries the completeness check's outcome,     *)
(* "depdate" is in missing_fields exactly when the raw departure expression *)
(* is absent or empty or parse_date_string returned None for it; a request  *)
(* whose departure resolved never has "depdate" among its missing fields.   *)
C6_DepdateMissingIffUnresolved ==
    Handled =>
        /\ response.status # "error" =>
              ("depdate" \in Range(response.missing_fields)
                 <=> (~Truthy(Raw("depdate")) \/ calls[1].result = None))
        /\ DepResolved => "depdate" \notin Range(response.missing_fields)

\* a departure text that is there but did not resolve is reported missing
C6_Witness ==
    /\ Handled
    /\ Raw("depdate") = PyStr(X_xyz)
    /\ DepCalled
    /\ calls[1].result = None
    /\ response.missing_fields = <<"depdate">>

(* C7: a request with origin, destination and a resolved departure date,    *)
(* no return expression, and optional fields that are each left out or null *)
(* gets the complete response with the defaults: adults 1, children and     *)
(* infants 0, cabin "economy", airline empty.                               *)
Absent(key) == request.parsed[key] \in {Omitted, None}

C7_DefaultsForAbsentOptionalFields ==
    (/\ Handled
     /\ ~is_missing(Raw("from"))
     /\ ~is_missing(Raw("to"))
     /\ DepResolved
     /\ ~Truthy(Raw("retdate"))
     /\ \A k \in {"adults", "children", "infants", "cabin", "airline_include"} :
           Absent(k))
    => /\ response.status = "complete"
       /\ response.payload.adults = PyInt(1)
       /\ response.payload.children = PyInt(0)
       /\ response.payload.infants = PyInt(0)
       /\ response.payload.cabin = PyStr(S_economy)
       /\ ~Truthy(response.payload.airline_include)

(* C8, as claimed: an incomplete response whose departure expression        *)
(* resolved carries the resolved date as its depdate.                       *)
C8_EchoesResolvedDate ==
    (Handled /\ response.status = "incomplete" /\ DepResolved)
    => response.parsed.depdate = calls[1].result

(* C8, amended: an incomplete response carries the raw departure expression *)
(* as the extractor gave it (None when it is empty), with the raw origin    *)
(* and destination; {from: "DEL", to: null, depdate: "tomorrow"} on         *)
(* 2025-06-01 is incomplete with missing exactly ["to"] and the depdate     *)
(* "tomorrow", the resolved 2025-06-02 staying out of the response.         *)
C8_EchoesRawExpression ==
    (Handled /\ response.status = "incomplete") =>
        /\ response.parsed.depdate =
              (IF Truthy(Raw("depdate")) THEN Raw("depdate") ELSE None)
        /\ response.parsed.from = Raw("from")
        /\ response.parsed.to = Raw("to")
        /\ (/\ Raw("from") = PyStr(X_DEL)
            /\ Raw("to") = None
            /\ Raw("depdate") = PyStr(S_tomorrow)
            /\ request.now = Date(Ymd2Ord(2025, 6, 1)))
           => /\ response.missing_fields = <<"to">>
              /\ response.parsed.depdate = PyStr(S_tomorrow)
              /\ calls[1].result = PyStr(D_2025_06_02)

C8_Witness ==
    /\ Handled
    /\ Raw("from") = PyStr(X_DEL)
    /\ Raw("to") = None
    /\ Raw("depdate") = PyStr(S_tomorrow)
    /\ request.now = Date(Ymd2Ord(2025, 6, 1))
    /\ response.status = "incomplete"
    /\ response.missing_fields = <<"to">>
    /\ calls[1].result = PyStr(D_2025_06_02)
    /\ response.parsed.depdate = PyStr(S_tomorrow)

(* C9: the return expression never affects completeness: the same request   *)
(* without its return expression gets the same status, missing_fields and   *)
(* follow_up; "retdate" is never a missing field; and the payload has two   *)
(* segments exactly when the return date resolved, else one.                *)
WithoutReturn(req) ==
    [req EXCEPT !.parsed = [req.parsed EXCEPT !.retdate = Omitted]]

C9_ReturnNeverAffectsCompleteness ==
    Handled =>
        LET twin == parse_query(WithoutReturn(request)).response
        IN /\ response.status = twin.status
           /\ response.missing_fields = twin.missing_fields
           /\ response.follow_up = twin.follow_up
           /\ "retdate" \notin Range(response.missing_fields)
           /\ response.status = "complete" =>
                 Len(response.payload.segments) =
                    (IF RetCalled # {} /\ calls[2].result.t = "str" THEN 2 ELSE 1)

(* C10, as claimed: a value is missing exactly when it is None or, trimmed  *)
(* and lower-cased, one of "", "not provided", "departure city (not         *)
(* provided)", "arrival city (not provided)".                               *)
ClaimedSentinels ==
    {<<>>, S_not_provided, S_departure_city_np, S_arrival_city_np}

NormalOf(value) == Lower(Strip(StrOf(value)))

C10_SentinelsAsClaimed ==
    (Handled /\ response.status # "error") =>
        ("from" \in Range(response.missing_fields)
           <=> (Raw("from") = None \/ NormalOf(Raw("from")) \in ClaimedSentinels))

(* C10, amended: a value is missing exactly when it is None or, trimmed and *)
(* lower-cased, one of "", "none", "not provided", "departure city (not     *)
(* provided)", "arrival city (not provided)"; an origin that is one of      *)
(* these in any letter case or padding gets the missing_fields and prompts  *)
(* of the same request without an origin, and no other origin is reported   *)
(* missing.                                                                 *)
WithoutOrigin(req) ==
    [req EXCEPT !.parsed = [req.parsed EXCEPT !.from = None]]

C10_SentinelsWithNone ==
    (Handled /\ response.status # "error") =>
        LET sentinel(v) ==
                v = None \/ NormalOf(v) \in ClaimedSentinels \cup {S_none}
            twin == parse_query(WithoutOrigin(request)).response
        IN /\ "from" \in Range(response.missing_fields) <=> sentinel(Raw("from"))
           /\ "to" \in Range(response.missing_fields) <=> sentinel(Raw("to"))
           /\ sentinel(Raw("from")) =>
                 /\ response.missing_fields = twin.missing_fields
                 /\ response.follow_up = twin.follow_up

\* the padded, mixed-case placeholder is reported like an absent origin
C10_Witness ==
    /\ Handled
    /\ Raw("from") = PyStr(X_DepartureCityNP)
    /\ Raw("to") = PyStr(X_DXB)
    /\ DepResolved
    /\ response.status = "incomplete"
    /\ response.missing_fields = <<"from">>
    /\ response.follow_up = <<PromptFrom>>

=============================================================================
